---- MODULE Spec2Model ----
(***************************************************************************)
(* Model of the polynomial equation solver.                                *)
(*                                                                         *)
(*   src/polinom.js    the interactive solver: parseEquation,              *)
(*                     generateReducedForm, solvePolynomial,               *)
(*                     displaySolution and the rl.question callback        *)
(*   src/src/main.cpp  the command-line program: getCoefficients,          *)
(*                     findDegree, main                                    *)
(*                                                                         *)
(* Strings are sequences of one-character strings.  A JavaScript number is *)
(* a pair <<n, d>>: the rational n/d in lowest terms with d > 0, and with  *)
(* d = 0 the three non-finite values <<0,0>> (NaN), <<1,0>> (Infinity) and *)
(* <<-1,0>> (-Infinity).  The inputs drawn below only hold decimal         *)
(* literals whose fraction is empty, 0 or 5 (multiples of 1/2), on which   *)
(* double addition, subtraction and multiplication are exact, so the       *)
(* rational is the double.                                                 *)
(* The sign of zero is not kept: the program never observes it (-0 === 0,  *)
(* -0 is falsy, and -0 prints as 0).                                       *)
(***************************************************************************)
EXTENDS Integers, Sequences, FiniteSets, TLC

VARIABLES
    pc,            \* position of the program
    equation,      \* polinom.js: the line handed to the rl.question callback
    lhsTerms,      \* parseEquation: extractTerms(lhs)
    rhsTerms,      \* parseEquation: extractTerms(rhs)
    coefficients,  \* the canonical mapping (combinedCoefficients)
    reducedForm,   \* generateReducedForm(coefficients)
    solution,      \* solvePolynomial(coefficients)
    branch,        \* the branch of solvePolynomial that returned
    divisors,      \* the divisors of the divisions solvePolynomial performed
    output,        \* the lines written to console.log / console.error
    arg,           \* main.cpp: argv[1]
    argc,          \* main.cpp: argc
    derefEnd,      \* main.cpp: findDegree dereferenced an end iterator
    cout           \* main.cpp: the lines written to cout

vars == <<pc, equation, lhsTerms, rhsTerms, coefficients, reducedForm,
          solution, branch, divisors, output, arg, argc, derefEnd, cout>>

jsVars == <<equation, lhsTerms, rhsTerms, coefficients, reducedForm,
            solution, branch, divisors, output>>

cppVars == <<arg, argc, derefEnd, cout>>

(***************************************************************************)
(* Bounds of the model.                                                    *)
(***************************************************************************)
MaxTokens == 4   \* an input line is made of at most this many tokens
MaxExp == 3      \* solver inputs: exponent keys are in 0..MaxExp
MaxCoef == 2     \* solver inputs: coefficients are k/2, k in -MaxCoef..MaxCoef
MaxArgTokens == 3   \* main.cpp: argv[1] is made of at most this many tokens

\* the value of a variable that has not been assigned (JavaScript undefined)
Undefined == [type |-> "undefined"]

(***************************************************************************)
(* JavaScript numbers.                                                     *)
(***************************************************************************)
NaN == <<0, 0>>
Zero == <<0, 1>>

RECURSIVE GCD(_, _)
GCD(a, b) == IF b = 0 THEN a ELSE GCD(b, a % b)

Abs(n) == IF n < 0 THEN -n ELSE n

Sgn(n) == IF n < 0 THEN -1 ELSE IF n > 0 THEN 1 ELSE 0

\* the number n/d in canonical form (d = 0 gives NaN and the infinities)
Num(n, d) ==
    IF d = 0 THEN <<Sgn(n), 0>>
    ELSE LET g == GCD(Abs(n), Abs(d))
         IN  <<(Sgn(d) * n) \div g, Abs(d) \div g>>

OfInt(n) == <<n, 1>>

IsNaN(x) == x = NaN
IsFinite(x) == x[2] # 0

\* x + y
Add(x, y) ==
    IF IsFinite(x) /\ IsFinite(y) THEN Num(x[1] * y[2] + y[1] * x[2], x[2] * y[2])
    ELSE IF IsNaN(x) \/ IsNaN(y) THEN NaN
    ELSE IF ~IsFinite(x) /\ ~IsFinite(y) THEN (IF x = y THEN x ELSE NaN)
    ELSE IF IsFinite(x) THEN y ELSE x

\* -x
Neg(x) == <<-x[1], x[2]>>

\* x - y
Sub(x, y) == Add(x, Neg(y))

\* x * y
Mul(x, y) ==
    IF IsFinite(x) /\ IsFinite(y) THEN Num(x[1] * y[1], x[2] * y[2])
    ELSE IF IsNaN(x) \/ IsNaN(y) \/ x[1] = 0 \/ y[1] = 0 THEN NaN
    ELSE <<x[1] * y[1], 0>>

\* x / y: a zero divisor gives an infinity, or NaN for 0 / 0
Div(x, y) ==
    IF IsFinite(x) /\ IsFinite(y) THEN Num(x[1] * y[2], x[2] * y[1])
    ELSE IF IsNaN(x) \/ IsNaN(y) THEN NaN
    ELSE IF ~IsFinite(x) /\ ~IsFinite(y) THEN NaN
    ELSE IF IsFinite(x) THEN Zero ELSE <<x[1] * Sgn(y[1]), 0>>

\* x > 0, x >= 0 (every comparison with NaN is false)
Positive(x) == x[1] > 0
NonNegative(x) == ~IsNaN(x) /\ x[1] >= 0

\* Math.abs(x)
MathAbs(x) == <<Abs(x[1]), x[2]>>

\* x || 0 for a number x: 0 and NaN are falsy
OrZero(x) == IF IsNaN(x) \/ x = Zero THEN Zero ELSE x

\* obj[key] || 0 for an object modelled as a function: obj[key] is undefined,
\* which is falsy, when the key is absent
GetOrZero(obj, key) == IF key \in DOMAIN obj THEN OrZero(obj[key]) ELSE Zero

(***************************************************************************)
(* Strings.                                                                *)
(***************************************************************************)
Digits == {"0", "1", "2", "3", "4", "5", "6", "7", "8", "9"}

DigitVal(c) ==
    CASE c = "0" -> 0 [] c = "1" -> 1 [] c = "2" -> 2 [] c = "3" -> 3
      [] c = "4" -> 4 [] c = "5" -> 5 [] c = "6" -> 6 [] c = "7" -> 7
      [] c = "8" -> 8 [] c = "9" -> 9

DigitChar(n) == <<"0", "1", "2", "3", "4", "5", "6", "7", "8", "9">>[n + 1]

\* the value of a string of decimal digits (0 for the empty string)
RECURSIVE DigitsVal(_)
DigitsVal(s) ==
    IF s = <<>> THEN 0
    ELSE 10 * DigitsVal(SubSeq(s, 1, Len(s) - 1)) + DigitVal(s[Len(s)])

RECURSIVE Pow10(_)
Pow10(k) == IF k = 0 THEN 1 ELSE 10 * Pow10(k - 1)

\* String(n) for an integer n >= 0
RECURSIVE NatToStr(_)
NatToStr(n) ==
    IF n < 10 THEN <<DigitChar(n)>>
    ELSE NatToStr(n \div 10) \o <<DigitChar(n % 10)>>

\* the concatenation of a sequence of strings
RECURSIVE Concat(_)
Concat(ss) == IF ss = <<>> THEN <<>> ELSE Head(ss) \o Concat(Tail(ss))

\* s.indexOf(t) !== -1
Contains(s, t) ==
    \E i \in 1..(Len(s) - Len(t) + 1) : SubSeq(s, i, i + Len(t) - 1) = t

\* the index after the longest run of characters of `set` that starts at p
RECURSIVE SpanEnd(_, _, _)
SpanEnd(s, p, set) ==
    IF p <= Len(s) /\ s[p] \in set THEN SpanEnd(s, p + 1, set) ELSE p

\* whether s holds character c at index p
At(s, p, c) == p <= Len(s) /\ s[p] = c

\* parseFloat(text) for a text of digits with at most one '.': NaN when the
\* text holds no digit (lines 30 and 59 only pass group 2 of their regex)
parseFloat(text) ==
    LET dot == SpanEnd(text, 1, Digits)
        intDigits == SubSeq(text, 1, dot - 1)
        fracEnd == IF At(text, dot, ".") THEN SpanEnd(text, dot + 1, Digits) ELSE dot
        fracDigits == IF At(text, dot, ".") THEN SubSeq(text, dot + 1, fracEnd - 1)
                      ELSE <<>>
    IN  IF intDigits = <<>> /\ fracDigits = <<>> THEN NaN
        ELSE Num(DigitsVal(intDigits \o fracDigits), Pow10(Len(fracDigits)))

\* parseInt(text) for a text of decimal digits
parseInt(text) == DigitsVal(text)

\* String(x) for a number x >= 0 whose decimal expansion is finite
RECURSIVE FracToStr(_, _)
FracToStr(rem, d) ==
    IF rem = 0 THEN <<>>
    ELSE <<DigitChar((rem * 10) \div d)>> \o FracToStr((rem * 10) % d, d)

NumberToStr(x) ==
    IF IsNaN(x) THEN <<"N", "a", "N">>
    ELSE IF ~IsFinite(x) THEN <<"I", "n", "f", "i", "n", "i", "t", "y">>
    ELSE IF x[1] % x[2] = 0 THEN NatToStr(x[1] \div x[2])
    ELSE NatToStr(x[1] \div x[2]) \o <<".">> \o FracToStr(x[1] % x[2], x[2])

(***************************************************************************)
(* parseEquation (polinom.js lines 9-93).                                  *)
(***************************************************************************)
Whitespace == {" "}

\* equation.replace(/\s/g, '')
stripWhitespace(s) == SelectSeq(s, LAMBDA c : c \notin Whitespace)

\* s.indexOf('=') at or after p, Len(s) + 1 when there is none
RECURSIVE indexOfEquals(_, _)
indexOfEquals(s, p) ==
    IF p > Len(s) \/ s[p] = "=" THEN p ELSE indexOfEquals(s, p + 1)

\* s.split('='): the pieces of s between the '=' characters
RECURSIVE split(_)
split(s) ==
    LET eq == indexOfEquals(s, 1)
    IN  IF eq > Len(s) THEN <<s>>
        ELSE <<SubSeq(s, 1, eq - 1)>> \o split(SubSeq(s, eq + 1, Len(s)))

NoMatch == [found |-> FALSE]

\* the pieces of the two regexes, each the index after its greedy match at q
signEnd(side, q) == IF q <= Len(side) /\ side[q] \in {"+", "-"} THEN q + 1 ELSE q
dotEnd(side, q) == IF At(side, q, ".") THEN q + 1 ELSE q
starEnd(side, q) == IF At(side, q, "*") THEN q + 1 ELSE q
coefficientEnd(side, q) ==
    SpanEnd(side, dotEnd(side, SpanEnd(side, q, Digits)), Digits)

\* /([+-]?)(\d*\.?\d*)\*?X\^(\d+)/ matched at index s of side: the sign ends
\* before p, the coefficient before q, X is at x and the exponent ends before
\* e.  Every quantifier is greedy, and here the greedy choice is the only one
\* that can succeed: what follows the sign, the coefficient and the '*' must
\* be the literal X, so a shorter choice leaves a character that is not X.
termRegexMatch(side, s, p, q, x, e) ==
    IF At(side, x, "X") /\ At(side, x + 1, "^") /\ e > x + 2
    THEN [found |-> TRUE, sign |-> SubSeq(side, s, p - 1),
          coef |-> SubSeq(side, p, q - 1), exp |-> SubSeq(side, x + 2, e - 1),
          end |-> e]
    ELSE NoMatch

termRegexVar(side, s, p, q, x) ==
    termRegexMatch(side, s, p, q, x, SpanEnd(side, x + 2, Digits))

termRegexCoef(side, s, p, q) == termRegexVar(side, s, p, q, starEnd(side, q))

termRegexSign(side, s, p) == termRegexCoef(side, s, p, coefficientEnd(side, p))

termRegexAt(side, s) == termRegexSign(side, s, signEnd(side, s))

\* /([+-]?)(\d*\.?\d+)\*?X\^0/ matched at index s of side: group 2 must end
\* in a digit, and the exponent is the single character 0
constantRegexMatch(side, s, p, q, x) ==
    IF q > p /\ side[q - 1] \in Digits
       /\ At(side, x, "X") /\ At(side, x + 1, "^") /\ At(side, x + 2, "0")
    THEN [found |-> TRUE, sign |-> SubSeq(side, s, p - 1),
          coef |-> SubSeq(side, p, q - 1), end |-> x + 3]
    ELSE NoMatch

constantRegexCoef(side, s, p, q) == constantRegexMatch(side, s, p, q, starEnd(side, q))

constantRegexSign(side, s, p) == constantRegexCoef(side, s, p, coefficientEnd(side, p))

constantRegexAt(side, s) == constantRegexSign(side, s, signEnd(side, s))

\* regex.exec(side) of the two global regexes: the leftmost match at or after
\* lastIndex (1-based here)
RECURSIVE termExec(_, _)
termExecOr(side, lastIndex, match) ==
    IF match.found THEN match ELSE termExec(side, lastIndex + 1)

termExec(side, lastIndex) ==
    IF lastIndex > Len(side) THEN NoMatch
    ELSE termExecOr(side, lastIndex, termRegexAt(side, lastIndex))

RECURSIVE constantExec(_, _)
constantExecOr(side, lastIndex, match) ==
    IF match.found THEN match ELSE constantExec(side, lastIndex + 1)

constantExec(side, lastIndex) ==
    IF lastIndex > Len(side) THEN NoMatch
    ELSE constantExecOr(side, lastIndex, constantRegexAt(side, lastIndex))

\* the matches of the while loop of extractTerms (line 28), in order
RECURSIVE termMatches(_, _)
termMatchesAfter(side, match) ==
    IF ~match.found THEN <<>> ELSE <<match>> \o termMatches(side, match.end)

termMatches(side, lastIndex) == termMatchesAfter(side, termExec(side, lastIndex))

\* lines 29-38 and the product of lines 41 and 43: sign * coefficient
termValue(match) ==
    LET sign == IF match.sign = <<"-">> THEN OfInt(-1) ELSE OfInt(1)
        parsed == IF match.coef = <<>> THEN OfInt(1) ELSE parseFloat(match.coef)
        coefficient ==
            IF match.coef = <<>> /\ match.sign = <<"-">> THEN OfInt(-1)
            ELSE IF match.coef = <<>> /\ match.sign = <<"+">> THEN OfInt(1)
            ELSE parsed
    IN  Mul(sign, coefficient)

\* lines 40-44: terms[exponent] += value, or = value for a new exponent
addTerm(terms, exponent, value) ==
    IF exponent \in DOMAIN terms
    THEN [terms EXCEPT ![exponent] = Add(@, value)]
    ELSE [e \in DOMAIN terms \cup {exponent} |->
            IF e = exponent THEN value ELSE terms[e]]

RECURSIVE foldTerms(_, _)
foldTerms(matches, terms) ==
    IF matches = <<>> THEN terms
    ELSE foldTerms(Tail(matches),
                   addTerm(terms, parseInt(Head(matches).exp), termValue(Head(matches))))

EmptyObject == [e \in {} |-> Zero]

extractTerms(side) == foldTerms(termMatches(side, 1), EmptyObject)

\* lines 58-60: sign * coefficient of one match of extractConstant
constantValue(match) ==
    Mul(IF match.sign = <<"-">> THEN OfInt(-1) ELSE OfInt(1), parseFloat(match.coef))

RECURSIVE extractConstantFrom(_, _, _)
extractConstantAfter(side, match, constant) ==
    IF ~match.found THEN constant
    ELSE extractConstantFrom(side, match.end, Add(constant, constantValue(match)))

extractConstantFrom(side, lastIndex, constant) ==
    extractConstantAfter(side, constantExec(side, lastIndex), constant)

extractConstant(side) == extractConstantFrom(side, 1, Zero)

\* lines 74-92: the canonical mapping of the per-side mappings and constants,
\* returned with the per-side mappings it was built from
combine(lhsT, rhsT, lhsConstant, rhsConstant) ==
    [threw |-> FALSE,
     lhsTerms |-> lhsT,
     rhsTerms |-> rhsT,
     value |-> [exp \in DOMAIN lhsT \cup DOMAIN rhsT \cup {0} |->
                  IF exp = 0 THEN Sub(OrZero(lhsConstant), OrZero(rhsConstant))
                  ELSE Sub(GetOrZero(lhsT, exp), GetOrZero(rhsT, exp))]]

\* lines 66-72
parseSides(lhs, rhs) ==
    combine(extractTerms(lhs), extractTerms(rhs),
            extractConstant(lhs), extractConstant(rhs))

FormatError ==
    [threw |-> TRUE, message |-> "Invalid equation format. Ensure it contains '=' sign."]

\* lines 14-18: [lhs, rhs] = parts; rhs is undefined when parts has one element
parseParts(parts) ==
    IF parts[1] = <<>> \/ Len(parts) < 2 THEN FormatError
    ELSE parseSides(parts[1], parts[2])

parseEquation(eq) == parseParts(split(stripWhitespace(eq)))

(***************************************************************************)
(* generateReducedForm (polinom.js lines 95-143).                          *)
(***************************************************************************)
Min(S) == CHOOSE x \in S : \A y \in S : x <= y
Max(S) == CHOOSE x \in S : \A y \in S : x >= y

\* the elements of a finite set of integers in ascending order
RECURSIVE sortAscending(_)
sortAscending(S) ==
    IF S = {} THEN <<>> ELSE <<Min(S)>> \o sortAscending(S \ {Min(S)})

\* the body of exponents.forEach (lines 102-128), applied to one exponent
renderTerm(form, coeffs, exp) ==
    LET coeff == coeffs[exp]
        signed == IF form = <<>>
                  THEN form \o (IF NonNegative(coeff) THEN <<>> ELSE <<"-", " ">>)
                  ELSE form \o (IF NonNegative(coeff) THEN <<" ", "+", " ">>
                                ELSE <<" ", "-", " ">>)
        absCoeff == MathAbs(coeff)
        valued == IF absCoeff # Zero THEN signed \o NumberToStr(absCoeff)
                  ELSE IF exp # 0 THEN signed \o <<"0">>
                  ELSE signed
    IN  IF coeff = Zero THEN form
        ELSE IF exp # 0 THEN valued \o <<" ", "*", " ", "X", "^">> \o NatToStr(exp)
        ELSE valued

RECURSIVE renderTerms(_, _, _)
renderTerms(form, coeffs, exponents) ==
    IF exponents = <<>> THEN form
    ELSE renderTerms(renderTerm(form, coeffs, Head(exponents)), coeffs, Tail(exponents))

\* lines 130-133: the synthetic term
appendSynthetic(form) ==
    IF Len(form) > 0 /\ ~Contains(form, <<"X", "^", "0">>)
    THEN form \o <<" ", "+", " ", "1", " ", "*", " ", "X", "^", "0">>
    ELSE form

generateReducedForm(coeffs) ==
    LET body == appendSynthetic(renderTerms(<<>>, coeffs, sortAscending(DOMAIN coeffs)))
    IN  (IF body = <<>> THEN <<"0">> ELSE body) \o <<" ", "=", " ", "0">>

(***************************************************************************)
(* determineDegree, solvePolynomial (polinom.js lines 145-246).            *)
(***************************************************************************)
\* Math.max(...exponents); -1 stands for the -Infinity of an empty list, which
\* like it matches no branch of solvePolynomial
determineDegree(coeffs) == IF DOMAIN coeffs = {} THEN -1 ELSE Max(DOMAIN coeffs)

AllReals == "All real numbers are solutions."
NoSolution == "No solution."

\* a root that is a JavaScript number
NumberRoot(x) == [type |-> "number", value |-> x]

\* the number (minusB + sign * Math.sqrt(d)) / over, kept as the expression
SurdRoot(minusB, sign, d, over) ==
    [type |-> "number", minusB |-> minusB, sign |-> sign, sqrtOf |-> d, over |-> over]

\* x.toFixed(2): the sign and the hundredths of |x| rounded half up
toFixed2(x) ==
    [negative |-> x[1] < 0,
     hundredths |-> (200 * Abs(x[1]) + x[2]) \div (2 * x[2])]

\* a root that is the string `${realPart} + ${imaginaryPart}i`; imaginaryPart
\* is (Math.sqrt(d) / over).toFixed(2), kept as the expression
ComplexRoot(realPart, op, d, over) ==
    [type |-> "string", realPart |-> realPart, op |-> op,
     imaginaryPart |-> [sqrtOf |-> d, over |-> over]]

\* A call of solvePolynomial is a record: the value returned (ret), the arm
\* of the degree dispatch that returned it (branch, "none" when the function
\* falls off its end), and the divisors of the divisions made, in order.
Returned(ret, divs) == [ret |-> ret, divisors |-> divs]

\* degenerateRun with the quotient turned over: -b / c for -c / b
degenerateRunTurned(b, c) ==
    IF b = Zero THEN
        Returned([degree |-> 0,
                  description |-> IF c = Zero THEN AllReals ELSE NoSolution], <<>>)
    ELSE
        Returned([degree |-> 1,
                  solutions |-> <<NumberRoot(Div(Neg(b), c))>>,
                  description |-> "Linear equation, one real solution."], <<c>>)

\* lines 166-181: the a === 0 arm of the quadratic branch
degenerateRun(b, c) ==
    IF b = Zero THEN
        Returned([degree |-> 0,
                  description |-> IF c = Zero THEN AllReals ELSE NoSolution], <<>>)
    ELSE
        Returned([degree |-> 1,
                  solutions |-> <<NumberRoot(Div(Neg(c), b))>>,
                  description |-> "Linear equation, one real solution."], <<b>>)

\* discriminantOf with the sign slipped: b * b + 4 * a * c
discriminantOfPlus(a, b, c) == Add(Mul(b, b), Mul(Mul(OfInt(4), a), c))

\* line 183: b * b - 4 * a * c
discriminantOf(a, b, c) == Sub(Mul(b, b), Mul(Mul(OfInt(4), a), c))

\* lines 184-218: the roots by the sign of the discriminant; twoA is 2 * a
rootsRun(b, twoA, discriminant) ==
    IF Positive(discriminant) THEN
        Returned([degree |-> 2, discriminant |-> discriminant,
                  solutions |-> <<SurdRoot(Neg(b), 1, discriminant, twoA),
                                  SurdRoot(Neg(b), -1, discriminant, twoA)>>,
                  description |-> "Discriminant is positive, two real solutions."],
                 <<twoA, twoA>>)
    ELSE IF discriminant = Zero THEN
        Returned([degree |-> 2, discriminant |-> discriminant,
                  solutions |-> <<NumberRoot(Div(Neg(b), twoA))>>,
                  description |-> "Discriminant is zero, one real solution."],
                 <<twoA>>)
    ELSE
        Returned([degree |-> 2, discriminant |-> discriminant,
                  solutions |->
                    <<ComplexRoot(toFixed2(Div(Neg(b), twoA)), "+",
                                  Neg(discriminant), twoA),
                      ComplexRoot(toFixed2(Div(Neg(b), twoA)), "-",
                                  Neg(discriminant), twoA)>>,
                  description |-> "Discriminant is negative, two complex solutions."],
                 <<twoA, twoA>>)

\* lines 160-218: the degree === 2 branch
quadraticRun(a, b, c) ==
    IF a = Zero THEN degenerateRun(b, c)
    ELSE rootsRun(b, Mul(OfInt(2), a), discriminantOf(a, b, c))

\* linearRun without the b === 0 check of line 224
linearRunUnchecked(b, c) ==
    Returned([degree |-> 1,
              solutions |-> <<NumberRoot(Div(Neg(c), b))>>,
              description |-> "Linear equation, one real solution."], <<b>>)

\* lines 219-236: the degree === 1 branch
linearRun(b, c) ==
    IF b = Zero THEN
        Returned([degree |-> 0,
                  description |-> IF c = Zero THEN AllReals ELSE NoSolution], <<>>)
    ELSE
        Returned([degree |-> 1,
                  solutions |-> <<NumberRoot(Div(Neg(c), b))>>,
                  description |-> "Linear equation, one real solution."], <<b>>)

\* lines 237-245: the degree === 0 branch
constantRun(c) ==
    Returned([degree |-> 0, solutions |-> <<>>,
              description |-> IF c = Zero THEN AllReals ELSE NoSolution], <<>>)

InBranch(name, run) == [ret |-> run.ret, divisors |-> run.divisors, branch |-> name]

\* lines 153-246: the dispatch on the nominal degree
dispatch(degree, coeffs) ==
    IF degree > 2 THEN
        InBranch("degree > 2",
                 Returned([degree |-> degree,
                           description |-> "The polynomial degree is greater than 2, can't solve."],
                          <<>>))
    ELSE IF degree = 2 THEN
        InBranch("degree === 2",
                 quadraticRun(GetOrZero(coeffs, 2), GetOrZero(coeffs, 1), GetOrZero(coeffs, 0)))
    ELSE IF degree = 1 THEN
        InBranch("degree === 1", linearRun(GetOrZero(coeffs, 1), GetOrZero(coeffs, 0)))
    ELSE IF degree = 0 THEN
        InBranch("degree === 0", constantRun(GetOrZero(coeffs, 0)))
    ELSE InBranch("none", Returned(Undefined, <<>>))

solveRun(coeffs) == dispatch(determineDegree(coeffs), coeffs)

solvePolynomial(coeffs) == solveRun(coeffs).ret

(***************************************************************************)
(* displaySolution (polinom.js lines 248-269): the lines it logs.          *)
(***************************************************************************)
displaySolution(sol, form) ==
    LET head == << <<"Reduced form: ", form>>, <<"Polynomial degree: ", sol.degree>> >>
    IN  IF sol.degree > 2 THEN head \o << <<sol.description>> >>
        ELSE IF "solutions" \in DOMAIN sol THEN
            IF Len(sol.solutions) = 2 THEN
                head \o << <<"The solutions are:">>,
                           <<"x1 = ", sol.solutions[1]>>,
                           <<"x2 = ", sol.solutions[2]>> >>
            ELSE IF Len(sol.solutions) = 1 THEN
                head \o << <<"The solution is:">>, <<"x = ", sol.solutions[1]>> >>
            ELSE head
        ELSE head \o << <<sol.description>> >>

(***************************************************************************)
(* The interactive program (polinom.js lines 271-287): rl.question hands   *)
(* the line to the callback, which parses, renders, solves, displays, and  *)
(* closes the interface on every path.                                     *)
(***************************************************************************)
\* the pieces input lines are made of: terms with and without sign,
\* coefficient, '*', inner whitespace and decimal point, a lone digit, the
\* separator and a blank
Tokens ==
    { <<"X", "^", "0">>,
      <<"-", "X", "^", "2">>,
      <<"2", " ", "*", " ", "X", "^", "1">>,
      <<"+", "1", ".", "5", "X", "^", "2">>,
      <<"-", "4", "*", "X", "^", "0">>,
      <<".", "X", "^", "1">>,
      <<"X", "^", "3">>,
      <<"1">>,
      <<"=">>,
      <<" ">> }

TokenSeqs == UNION {[1..n -> Tokens] : n \in 0..MaxTokens}

Inputs == {Concat(ts) : ts \in TokenSeqs}

JsIdle ==
    /\ equation = <<>>
    /\ lhsTerms = EmptyObject
    /\ rhsTerms = EmptyObject
    /\ coefficients = EmptyObject
    /\ reducedForm = <<>>
    /\ solution = Undefined
    /\ branch = ""
    /\ divisors = <<>>
    /\ output = <<>>

CppIdle ==
    /\ arg = <<>>
    /\ argc = 0
    /\ derefEnd = FALSE
    /\ cout = <<>>

\* rl.question has handed the user's line to the callback
Init ==
    /\ pc = "callback"
    /\ equation \in Inputs
    /\ lhsTerms = EmptyObject
    /\ rhsTerms = EmptyObject
    /\ coefficients = EmptyObject
    /\ reducedForm = <<>>
    /\ solution = Undefined
    /\ branch = ""
    /\ divisors = <<>>
    /\ output = <<>>
    /\ CppIdle

\* the catch block (line 283): its line follows what the try block logged
caught(logged, message) ==
    [threw |-> TRUE, output |-> logged \o << <<"Error: ", message>> >>]

\* line 281: displaySolution logs the reduced form (line 249) and then throws
\* a TypeError if it has to read the degree of an undefined solution
afterSolve(parsed, form, run) ==
    IF run.ret = Undefined
    THEN caught(<< <<"Reduced form: ", form>> >>,
                "Cannot read properties of undefined (reading 'degree')")
    ELSE [threw |-> FALSE, lhsTerms |-> parsed.lhsTerms, rhsTerms |-> parsed.rhsTerms,
          coefficients |-> parsed.value, reducedForm |-> form,
          solution |-> run.ret, branch |-> run.branch, divisors |-> run.divisors,
          output |-> displaySolution(run.ret, form)]

\* lines 278-280
afterParse(parsed) ==
    IF parsed.threw THEN caught(<<>>, parsed.message)
    ELSE afterSolve(parsed, generateReducedForm(parsed.value), solveRun(parsed.value))

\* lines 277-284: what the callback does with the line
callback(line) == afterParse(parseEquation(line))

\* the callback, its try block running to the end; finally closes rl
CallbackSolved ==
    /\ pc = "callback"
    /\ \E done \in {callback(equation)} :
          /\ ~done.threw
          /\ lhsTerms' = done.lhsTerms
          /\ rhsTerms' = done.rhsTerms
          /\ coefficients' = done.coefficients
          /\ reducedForm' = done.reducedForm
          /\ solution' = done.solution
          /\ branch' = done.branch
          /\ divisors' = done.divisors
          /\ output' = done.output
    /\ pc' = "closed"
    /\ UNCHANGED equation
    /\ UNCHANGED cppVars

\* the callback, its try block throwing: the catch logs the message; finally
\* closes rl
CallbackError ==
    /\ pc = "callback"
    /\ \E done \in {callback(equation)} :
          /\ done.threw
          /\ output' = done.output
    /\ pc' = "closed"
    /\ UNCHANGED <<equation, lhsTerms, rhsTerms, coefficients, reducedForm,
                   solution, branch, divisors>>
    /\ UNCHANGED cppVars

Next == CallbackSolved \/ CallbackError

Spec == Init /\ [][Next]_vars

(***************************************************************************)
(* The renderer, the solver and the display applied to every canonical     *)
(* mapping within the bounds: key 0 present, exponent keys in 0..MaxExp.   *)
(***************************************************************************)
CoefValues == {Num(k, 2) : k \in -MaxCoef..MaxCoef}

Mappings ==
    UNION {[keys \cup {0} -> CoefValues] : keys \in SUBSET (1..MaxExp)}

InitSolve ==
    /\ pc = "render"
    /\ coefficients \in Mappings
    /\ equation = <<>>
    /\ lhsTerms = EmptyObject
    /\ rhsTerms = EmptyObject
    /\ reducedForm = <<>>
    /\ solution = Undefined
    /\ branch = ""
    /\ divisors = <<>>
    /\ output = <<>>
    /\ CppIdle

RenderStep ==
    /\ pc = "render"
    /\ reducedForm' = generateReducedForm(coefficients)
    /\ pc' = "solve"
    /\ UNCHANGED <<equation, lhsTerms, rhsTerms, coefficients, solution,
                   branch, divisors, output>>
    /\ UNCHANGED cppVars

SolveStep ==
    /\ pc = "solve"
    /\ \E run \in {solveRun(coefficients)} :
          /\ solution' = run.ret
          /\ branch' = run.branch
          /\ divisors' = run.divisors
    /\ pc' = "display"
    /\ UNCHANGED <<equation, lhsTerms, rhsTerms, coefficients, reducedForm, output>>
    /\ UNCHANGED cppVars

DisplayStep ==
    /\ pc = "display"
    /\ solution # Undefined
    /\ output' = displaySolution(solution, reducedForm)
    /\ pc' = "closed"
    /\ UNCHANGED <<equation, lhsTerms, rhsTerms, coefficients, reducedForm,
                   solution, branch, divisors>>
    /\ UNCHANGED cppVars

NextSolve == RenderStep \/ SolveStep \/ DisplayStep

SpecSolve == InitSolve /\ [][NextSolve]_vars

(***************************************************************************)
(* The command-line program (main.cpp).                                    *)
(***************************************************************************)
\* equation[i] of a std::string, 1-based here: the terminating '\0' (written
\* "") at index Len + 1
charAt(str, i) == IF i <= Len(str) THEN str[i] ELSE ""

\* getCoefficients (lines 19-29): the exponent after every "x^", or the
\* std::invalid_argument that stod throws on a character that is no digit
RECURSIVE getCoefficientsFrom(_, _, _)
getCoefficientsFrom(str, i, found) ==
    IF i > Len(str) THEN [threw |-> FALSE, value |-> found]
    ELSE IF str[i] = "x" /\ charAt(str, i + 1) # "" /\ charAt(str, i + 1) = "^"
            /\ charAt(str, i + 2) # ""
         THEN IF charAt(str, i + 2) \in Digits
              THEN getCoefficientsFrom(str, i + 1,
                                       Append(found, DigitVal(charAt(str, i + 2))))
              ELSE [threw |-> TRUE, value |-> found]
         ELSE getCoefficientsFrom(str, i + 1, found)

getCoefficients(str) == getCoefficientsFrom(str, 1, <<>>)

\* what reading *maxElement can do when maxElement is the end iterator of an
\* empty vector (undefined behaviour): the process crashes, or the read yields
\* some double: one below, one equal to and one above the degree 2 that main
\* compares it with
EndReads ==
    {[crash |-> TRUE, value |-> 0]} \cup {[crash |-> FALSE, value |-> v] : v \in {0, 2, 3}}

\* findDegree (lines 31-34): what a call can do; it returns value unless it
\* crashes
findDegree(found) ==
    IF found = <<>> THEN EndReads
    ELSE {[crash |-> FALSE, value |-> Max({found[i] : i \in 1..Len(found)})]}

\* an int division of C++: it truncates toward zero
TruncDiv(n, d) == Sgn(n) * Sgn(d) * (Abs(n) \div Abs(d))

\* findDescriminant (lines 4-17): pow(b, 2) - 4 * a * c
findDescriminant(a, b, c) == b * b - 4 * a * c

\* solveQuadratic (lines 36-46) with findDescriminant's output: the lines
\* written to cout; the two roots stay expressions over sqrt(res)
solveQuadratic(a, b, c) ==
    LET res == findDescriminant(a, b, c)
    IN  << <<"The Descriminant is: ", res>> >> \o
        (IF res = 0 THEN
            << <<"The equation has one real root">>,
               <<"The root is: ", TruncDiv(-b, 2 * a)>> >>
         ELSE IF res > 0 THEN
            << <<"The equation has two real roots">>,
               <<"The roots are: ", [minusB |-> -b, sign |-> 1, sqrtOf |-> res, over |-> 2 * a],
                 " and ", [minusB |-> -b, sign |-> -1, sqrtOf |-> res, over |-> 2 * a]>> >>
         ELSE << <<"The equation has no real roots">> >>)

ArgTokens ==
    { <<"x", "^", "1">>, <<"x", "^", "2">>, <<"x", "^", "3">>, <<"x", "^", "a">>,
      <<"x">>, <<"2">>, <<"+">> }

Args == {Concat(ts) : ts \in UNION {[1..n -> ArgTokens] : n \in 0..MaxArgTokens}}

InitCpp ==
    /\ pc = "main"
    /\ argc \in 1..3
    /\ arg \in (IF argc = 1 THEN {<<>>} ELSE Args)
    /\ derefEnd = FALSE
    /\ cout = <<>>
    /\ JsIdle

\* lines 60-61: argc is not 2
MainWrongArguments ==
    /\ pc = "main"
    /\ argc # 2
    /\ cout' = Append(cout, <<"Wrong number of arguments">>)
    /\ pc' = "exit"
    /\ UNCHANGED <<arg, argc, derefEnd>>
    /\ UNCHANGED jsVars

\* lines 51 and 54: stod throws out of getCoefficients; nothing catches it
MainThrows ==
    /\ pc \in {"main", "line 54"}
    /\ argc = 2
    /\ getCoefficients(arg).threw
    /\ pc' = "terminate"
    /\ UNCHANGED <<arg, argc, derefEnd, cout>>
    /\ UNCHANGED jsVars

\* lines 51-53: the first findDegree(getCoefficients(arg))
MainFirstCheck ==
    /\ pc = "main"
    /\ argc = 2
    /\ ~getCoefficients(arg).threw
    /\ derefEnd' = (derefEnd \/ getCoefficients(arg).value = <<>>)
    /\ \E degree \in findDegree(getCoefficients(arg).value) :
          IF degree.crash THEN pc' = "crash" /\ cout' = cout
          ELSE /\ pc' = "line 54"
               /\ cout' = IF degree.value > 2
                          THEN Append(cout, <<"The polynomial degree is stricly greater than 2, I can't solve.">>)
                          ELSE cout
    /\ UNCHANGED <<arg, argc>>
    /\ UNCHANGED jsVars

\* lines 54-58: the second findDegree(getCoefficients(arg))
MainSecondCheck ==
    /\ pc = "line 54"
    /\ ~getCoefficients(arg).threw
    /\ derefEnd' = (derefEnd \/ getCoefficients(arg).value = <<>>)
    /\ \E degree \in findDegree(getCoefficients(arg).value) :
          IF degree.crash THEN pc' = "crash" /\ cout' = cout
          ELSE /\ pc' = "exit"
               /\ cout' = IF degree.value = 2
                          THEN cout \o << <<"Reduced form: ", arg>> >> \o solveQuadratic(1, 2, 1)
                          ELSE cout
    /\ UNCHANGED <<arg, argc>>
    /\ UNCHANGED jsVars

NextCpp == MainWrongArguments \/ MainThrows \/ MainFirstCheck \/ MainSecondCheck

SpecCpp == InitCpp /\ [][NextCpp]_vars

(***************************************************************************)
(* Properties.                                                             *)
(***************************************************************************)
\* the callback has run its try block to the end / has caught an error
Solved == pc = "closed" /\ solution # Undefined
Failed == pc = "closed" /\ solution = Undefined

\* exactly one '=', with a non-empty side before and after it
WellFormed(clean) ==
    /\ Cardinality({i \in 1..Len(clean) : clean[i] = "="}) = 1
    /\ clean[1] # "="
    /\ clean[Len(clean)] # "="

\* the callback has run to the end on an input that is well formed: the
\* inputs the properties of the parser, renderer and display are about
Accepted == Solved /\ WellFormed(stripWhitespace(equation))

\* the two sides parseEquation works on
CleanParts == split(stripWhitespace(equation))
LhsSide == CleanParts[1]
RhsSide == CleanParts[2]

\* m[e], a missing exponent counting as 0
CoefAt(m, e) == IF e \in DOMAIN m THEN m[e] ELSE Zero

SideExponents == DOMAIN lhsTerms \cup DOMAIN rhsTerms

\* C1: for every accepted input the canonical mapping is lhs - rhs on every
\* exponent of either side, exponent 0 included, and has the key 0, with
\* value 0 when exponent 0 is on neither side.
C1_CanonicalIsDifference ==
    Accepted =>
        /\ 0 \in DOMAIN coefficients
        /\ \A e \in SideExponents :
              /\ e \in DOMAIN coefficients
              /\ coefficients[e] = Sub(CoefAt(lhsTerms, e), CoefAt(rhsTerms, e))
        /\ 0 \notin SideExponents => coefficients[0] = Zero

\* the signed coefficient a term is meant to contribute: its sign times its
\* coefficient, the magnitude being 1 when no coefficient is written
SignedCoefficient(match) ==
    Mul(IF match.sign = <<"-">> THEN OfInt(-1) ELSE OfInt(1),
        IF match.coef = <<>> THEN OfInt(1) ELSE parseFloat(match.coef))

RECURSIVE SumAt(_, _)
SumAt(matches, e) ==
    IF matches = <<>> THEN Zero
    ELSE IF parseInt(Head(matches).exp) = e
         THEN Add(SignedCoefficient(Head(matches)), SumAt(Tail(matches), e))
         ELSE SumAt(Tail(matches), e)

SumsSignedCoefficients(terms, side) ==
    LET matches == termMatches(side, 1)
    IN  /\ DOMAIN terms = {parseInt(matches[i].exp) : i \in 1..Len(matches)}
        /\ \A e \in DOMAIN terms : terms[e] = SumAt(matches, e)

\* C2: on an accepted input the per-side mapping gives each exponent the sum of the signed
\* coefficients of the side's terms with that exponent; a term without a
\* coefficient contributes 1 with the term's sign (-X^2 contributes -1).
C2_SideSumsSignedCoefficients ==
    Accepted =>
        /\ SumsSignedCoefficients(lhsTerms, LhsSide)
        /\ SumsSignedCoefficients(rhsTerms, RhsSide)

\* C3: an input that is not one '=' between two non-empty sides raises the
\* format error, and the only output is the one error message.
C3_MalformedRaisesFormatError ==
    (pc = "closed" /\ ~WellFormed(stripWhitespace(equation))) =>
        /\ Failed
        /\ output = << <<"Error: ", FormatError.message>> >>

\* solvePolynomial has returned (SpecSolve)
AfterSolve == pc \in {"display", "closed"}

NominalDegree == Max(DOMAIN coefficients)

\* twice a coefficient: the solver inputs are multiples of 1/2
Halves(x) == (2 * x[1]) \div x[2]
TwiceA == Halves(CoefAt(coefficients, 2))
TwiceB == Halves(CoefAt(coefficients, 1))
TwiceC == Halves(CoefAt(coefficients, 0))

\* four times b*b - 4*a*c, in integers
FourD == TwiceB * TwiceB - 4 * TwiceA * TwiceC

QuadraticCase == AfterSolve /\ NominalDegree = 2 /\ coefficients[2] # Zero

\* part is -b/(2a) written with two decimals: its sign, and hundredths within
\* half a hundredth of |b/(2a)|
IsMinusBOverTwoA(part) ==
    /\ part.negative = (TwiceB * TwiceA > 0)
    /\ Abs(100 * Abs(TwiceB) - 2 * Abs(TwiceA) * part.hundredths) <= Abs(TwiceA)

\* C4: with highest key 2 and a # 0 the result has degree 2 and discriminant
\* b*b - 4ac; D > 0 gives two real roots, D = 0 the one real root -b/(2a),
\* D < 0 two complex roots, not numbers, that share the real part -b/(2a).
C4_QuadraticByDiscriminant ==
    QuadraticCase =>
        /\ solution.degree = 2
        /\ solution.discriminant = Num(FourD, 4)
        /\ FourD > 0 =>
              /\ Len(solution.solutions) = 2
              /\ \A i \in 1..2 : solution.solutions[i].type = "number"
              /\ solution.solutions[1] # solution.solutions[2]
        /\ FourD = 0 =>
              solution.solutions = <<NumberRoot(Num(-TwiceB, 2 * TwiceA))>>
        /\ FourD < 0 =>
              /\ Len(solution.solutions) = 2
              /\ \A i \in 1..2 :
                    /\ solution.solutions[i].type = "string"
                    /\ IsMinusBOverTwoA(solution.solutions[i].realPart)
              /\ solution.solutions[1] # solution.solutions[2]

C4_Witness ==
    /\ QuadraticCase
    /\ FourD < 0
    /\ Len(solution.solutions) = 2
    /\ solution.solutions[1].type = "string"

DegenerateCase == AfterSolve /\ NominalDegree = 2 /\ coefficients[2] = Zero

\* the mapping with highest exponent key 1 and the same coeff[1], coeff[0]
Collapsed == [e \in {0, 1} |-> CoefAt(coefficients, e)]

\* C5: with highest key 2 and coeff[2] = 0 the result is the one of the
\* mapping with highest key 1 and the same coeff[1], coeff[0]: same degree,
\* roots and description, and no discriminant.
C5_DegenerateLinearCollapse ==
    DegenerateCase =>
        /\ solution = solvePolynomial(Collapsed)
        /\ "discriminant" \notin DOMAIN solution

C5_Witness ==
    /\ DegenerateCase
    /\ CoefAt(coefficients, 1) # Zero
    /\ solution.degree = 1
    /\ Len(solution.solutions) = 1

Synthetic == <<" ", "+", " ", "1", " ", "*", " ", "X", "^", "0">>

BodyNonEmpty == \E e \in DOMAIN coefficients : coefficients[e] # Zero

\* C6: the synthetic term is appended iff the body is non-empty and the
\* exponent-0 coefficient is zero; a non-zero exponent-0 coefficient gives no
\* synthetic term; all coefficients zero give exactly "0 = 0".
C6_SyntheticOnlyForZeroConstant ==
    pc # "render" =>
        /\ Contains(reducedForm, Synthetic) <=> (BodyNonEmpty /\ coefficients[0] = Zero)
        /\ coefficients[0] # Zero => ~Contains(reducedForm, Synthetic)
        /\ ~BodyNonEmpty => reducedForm = <<"0", " ", "=", " ", "0">>

\* C7: for an accepted input, parsing the reduced form gives the canonical mapping back on every
\* exponent >= 1, and on exponent 0 whenever its coefficient is non-zero.
C7_RoundTrip ==
    Accepted =>
        \A back \in {parseEquation(reducedForm)} :
            /\ ~back.threw
            /\ \A e \in (DOMAIN coefficients \cup DOMAIN back.value) \ {0} :
                  CoefAt(back.value, e) = CoefAt(coefficients, e)
            /\ coefficients[0] # Zero => back.value[0] = coefficients[0]

\* what displaySolution logged after the reduced form and the degree
Shown == SubSeq(output, 3, Len(output))

ShowsMessage(text) == Shown = << <<text>> >>

ShowsRoots ==
    \/ /\ Len(Shown) = 2
       /\ Shown[1] = <<"The solution is:">>
       /\ Shown[2] = <<"x = ", solution.solutions[1]>>
    \/ /\ Len(Shown) = 3
       /\ Shown[1] = <<"The solutions are:">>
       /\ Shown[2] = <<"x1 = ", solution.solutions[1]>>
       /\ Shown[3] = <<"x2 = ", solution.solutions[2]>>

\* C8: for an accepted input, after the reduced form and the degree the
\* display shows the message
\* or one or two roots, never neither; with nominal degree 0 it shows
\* "No solution.", or "All real numbers are solutions." for the constant 0.
C8_MessageOrRoots ==
    Accepted =>
        /\ Len(output) >= 2
        /\ output[1] = <<"Reduced form: ", reducedForm>>
        /\ output[2][1] = "Polynomial degree: "
        /\ ShowsMessage(solution.description) \/ ShowsRoots
        /\ NominalDegree = 0 =>
              ShowsMessage(IF coefficients[0] = Zero THEN AllReals ELSE NoSolution)

\* C9: solvePolynomial returns a defined result through the one branch of
\* its nominal degree, and no division has a zero divisor.
C9_TotalAndDivisionSafe ==
    AfterSolve =>
        /\ solution # Undefined
        /\ branch = (IF NominalDegree > 2 THEN "degree > 2"
                     ELSE IF NominalDegree = 2 THEN "degree === 2"
                     ELSE IF NominalDegree = 1 THEN "degree === 1"
                     ELSE "degree === 0")
        /\ \A i \in 1..Len(divisors) : IsFinite(divisors[i]) /\ divisors[i] # Zero

C9_Witness ==
    /\ AfterSolve
    /\ branch = "degree === 1"
    /\ divisors = <<coefficients[1]>>
    /\ Len(solution.solutions) = 1

\* C10: with one command-line argument, findDegree never dereferences the
\* end iterator of an empty vector.
C10_NeverDereferencesEnd == argc = 2 => ~derefEnd

====
